---- MODULE Spec2Model ----
(***************************************************************************)
(* TPCircularBuffer: a single-producer / single-consumer byte ring buffer  *)
(* over a mirrored memory region (src/TPCircularBuffer.h).                 *)
(*                                                                         *)
(* Pointers are modelled as byte offsets from buffer->buffer; the mirror   *)
(* makes offset length + k alias offset k, so the addressable region is    *)
(* the offsets 0 .. 2*length - 1.                                          *)
(***************************************************************************)
EXTENDS Integers, Sequences, FiniteSets, TLC

\* ------------------------------------------------------------------------
\* Bounds of the model
\* ------------------------------------------------------------------------
\* buffer->length, the (rounded) capacity in bytes.
Capacity == 3
\* Total number of bytes the producer publishes in one behaviour.
MaxTotal == 4
\* Number of calls in a single-threaded call sequence (RunsSpec).
MaxCalls == 3

\* The null pointer, as an offset that is no offset of the region.
NULL == -1

\* ------------------------------------------------------------------------
\* State
\* ------------------------------------------------------------------------
VARIABLES
    buffer,     \* the TPCircularBuffer struct: length, tail, head, fillCount, atomic
    region,     \* the bytes behind buffer->buffer, one cell per offset 0..length-1:
                \* the index of the stream byte the cell holds (0: none, or not tracked)
    ppc,        \* producer thread: where it is inside an operation ("idle" between)
    pl,         \* producer thread: locals and the span writeAccess last reported
    cpc,        \* consumer thread: where it is inside an operation ("idle" between)
    cl,         \* consumer thread: locals and the span readAccess last reported
    produced,   \* number of bytes published while contents are followed (byte i of the
                \* stream has value i)
    readLog,    \* the bytes the consumer read and then released, in order
    tracking,   \* byte contents are followed (until a clear drops data)
    alone,      \* a clear is in flight and the producer has taken no step since it began
    asserted,   \* the assert of TPCircularBufferProduce has failed (program aborted)
    fault,      \* a memory access left the mirrored region, or memcpy got a negative size
    runs        \* RunsSpec only: one struct per update discipline, driven in lockstep

vars == <<buffer, region, ppc, pl, cpc, cl, produced, readLog, tracking, alone, asserted,
          fault, runs>>

Offsets == 0 .. (Capacity - 1)

\* C's % truncates towards zero: the result has the sign of the dividend.
CMod(a, b) == IF a >= 0 THEN a % b ELSE -((-a) % b)

\* The cell of the backing storage an offset of the mirrored region refers to.
Cell(o) == o % Capacity

\* An offset inside the mirrored region (both mappings).
InRegion(o) == 0 <= o /\ o < 2 * Capacity

\* ------------------------------------------------------------------------
\* The inline functions of the header, on a struct value b
\* ------------------------------------------------------------------------
\* Mutant: the read pointer is taken at the write cursor.
MutTailAtHead(b) ==
    LET availableBytes == IF b.fillCount <= 0 THEN 0 ELSE b.fillCount
    IN  [availableBytes |-> availableBytes,
         ptr |-> IF availableBytes = 0 THEN NULL ELSE b.head]

\* Mutant: the empty check before the pointer is returned is missing.
MutTailNoNull(b) ==
    [availableBytes |-> IF b.fillCount <= 0 THEN 0 ELSE b.fillCount, ptr |-> b.tail]

\* Mutant: the span stops at the end of the first mapping, as without a mirror.
MutTailStopsAtEnd(b) ==
    LET fillCount == IF b.fillCount <= 0 THEN 0 ELSE b.fillCount
        availableBytes == IF b.tail + fillCount > b.length THEN b.length - b.tail
                          ELSE fillCount
    IN  [availableBytes |-> availableBytes,
         ptr |-> IF availableBytes = 0 THEN NULL ELSE b.tail]

\* Mutant: the fill count is reported as it is, negative values included.
MutTailNoClamp(b) ==
    [availableBytes |-> b.fillCount, ptr |-> IF b.fillCount = 0 THEN NULL ELSE b.tail]

\* Mutant: one byte fewer than the fill count is reported.
MutTailOneShort(b) ==
    LET availableBytes == IF b.fillCount <= 1 THEN 0 ELSE b.fillCount - 1
    IN  [availableBytes |-> availableBytes,
         ptr |-> IF availableBytes = 0 THEN NULL ELSE b.tail]

\* TPCircularBufferTail: the load of fillCount and the result it computes.
TPCircularBufferTail(b) ==
    LET fillCount == b.fillCount
        availableBytes == IF fillCount <= 0 THEN 0 ELSE fillCount
    IN  [availableBytes |-> availableBytes,
         ptr |-> IF availableBytes = 0 THEN NULL ELSE b.tail]

\* Mutant: one byte is always kept free, as in a ring buffer without a fill count.
MutHeadKeepsOneFree(b) ==
    LET availableBytes == (IF b.fillCount <= 0 THEN b.length ELSE b.length - b.fillCount) - 1
    IN  [availableBytes |-> IF availableBytes < 0 THEN 0 ELSE availableBytes,
         discardBytes |-> IF b.fillCount <= 0 THEN -b.fillCount ELSE 0,
         ptr |-> IF availableBytes <= 0 THEN NULL ELSE b.head]

\* Mutant: a negative fill count is not reported as bytes to discard.
MutHeadNoDiscard(b) ==
    LET availableBytes == IF b.fillCount <= 0 THEN b.length ELSE b.length - b.fillCount
    IN  [availableBytes |-> availableBytes, discardBytes |-> 0,
         ptr |-> IF availableBytes = 0 THEN NULL ELSE b.head]

\* Mutant: the whole capacity is reported as free whatever the fill count.
MutHeadReportsLength(b) ==
    [availableBytes |-> b.length,
     discardBytes |-> IF b.fillCount <= 0 THEN -b.fillCount ELSE 0,
     ptr |-> b.head]

\* TPCircularBufferHead: the load of fillCount and the result it computes.
TPCircularBufferHead(b) ==
    LET fillCount == b.fillCount
        availableBytes == IF fillCount <= 0 THEN b.length ELSE b.length - fillCount
        discardBytes == IF fillCount <= 0 THEN -fillCount ELSE 0
    IN  [availableBytes |-> availableBytes,
         discardBytes |-> discardBytes,
         ptr |-> IF availableBytes = 0 THEN NULL ELSE b.head]

\* Mutant: the read cursor is set from the amount alone.
MutConsumeTailAssign(b, amount) == [b EXCEPT !.tail = CMod(amount, b.length)]

\* Mutant: consume advances the write cursor instead of the read cursor.
MutConsumeTailMovesHead(b, amount) == [b EXCEPT !.head = CMod(b.head + amount, b.length)]

\* buffer->tail = (buffer->tail + amount) % buffer->length
ConsumeTail(b, amount) == [b EXCEPT !.tail = CMod(b.tail + amount, b.length)]

\* Mutant: the amount is subtracted by both branches of line 156.
MutConsumeFillTwice(b, amount) == [b EXCEPT !.fillCount = b.fillCount - 2 * amount]

\* fillCount -= amount (atomic_fetch_sub in atomic mode, an atomic_int compound
\* assignment otherwise: one read-modify-write either way).
ConsumeFill(b, amount) == [b EXCEPT !.fillCount = b.fillCount - amount]

\* Mutant: the write cursor is advanced without wrapping.
MutProduceHeadNoWrap(b, h, amount) == [b EXCEPT !.head = h + amount]

\* buffer->head = (h + amount) % buffer->length, h being the head the thread loaded.
ProduceHead(b, h, amount) == [b EXCEPT !.head = CMod(h + amount, b.length)]

\* Mutant: the fill count is stored, not added to.
MutProduceFillStores(b, amount) == [b EXCEPT !.fillCount = amount]

\* fillCount += amount (atomic_fetch_add, or the atomic_int compound assignment).
ProduceFill(b, amount) == [b EXCEPT !.fillCount = b.fillCount + amount]

\* assert(previousFillCount + amount <= buffer->length)
ProduceAssertOk(b, previousFillCount, amount) == previousFillCount + amount <= b.length

\* Mutant: a write that fits exactly is refused.
MutProduceBytesNoSpaceExact(space, len, discard) == space <= len - discard

\* TPCircularBufferProduceBytes, line 233: the test that makes it return false.
ProduceBytesNoSpace(space, len, discard) == space < len - discard

\* TPCircularBufferConsume run to completion by one thread. Both branches of
\* line 156 subtract amount from fillCount; they differ in memory ordering only.
TPCircularBufferConsume(b, amount) ==
    LET b1 == ConsumeTail(b, amount)
    IN  IF b1.atomic THEN ConsumeFill(b1, amount)
                     ELSE [b1 EXCEPT !.fillCount = @ - amount]

\* TPCircularBufferProduce run to completion by one thread: the struct after the
\* call, whether the assert of line 213 failed, and the value returned.
TPCircularBufferProduce(b, amount) ==
    LET b1 == ProduceHead(b, b.head, amount)
        previousFillCount == b1.fillCount
        b2 == IF b1.atomic THEN ProduceFill(b1, amount)
                           ELSE [b1 EXCEPT !.fillCount = @ + amount]
    IN  [b |-> b2,
         asserted |-> ~ProduceAssertOk(b2, previousFillCount, amount),
         previousFillCount |-> previousFillCount]

\* TPCircularBufferConsumeNoBarrier (deprecated), lines 246-249.
TPCircularBufferConsumeNoBarrier(b, amount) ==
    LET b1 == [b EXCEPT !.tail = CMod(b.tail + amount, b.length)]
    IN  [b1 EXCEPT !.fillCount = @ - amount]

\* Mutant: the assert of the deprecated produce refuses a full buffer.
MutProduceNoBarrierStrict(b, amount) ==
    LET b2 == [b EXCEPT !.head = CMod(b.head + amount, b.length),
                        !.fillCount = @ + amount]
    IN  [b |-> b2, asserted |-> ~(b2.fillCount < b2.length)]

\* TPCircularBufferProduceNoBarrier (deprecated), lines 256-260: the struct after
\* the call and whether assert(buffer->fillCount <= buffer->length) failed.
TPCircularBufferProduceNoBarrier(b, amount) ==
    LET b1 == [b EXCEPT !.head = CMod(b.head + amount, b.length)]
        b2 == [b1 EXCEPT !.fillCount = @ + amount]
    IN  [b |-> b2, asserted |-> ~(b2.fillCount <= b2.length)]

\* ------------------------------------------------------------------------
\* Initial state: an initialised, empty buffer; the atomic flag is chosen at
\* setup time (TPCircularBufferSetAtomic), true by default.
\* ------------------------------------------------------------------------
EmptyBuffer(atomic) ==
    [length |-> Capacity, tail |-> 0, head |-> 0, fillCount |-> 0, atomic |-> atomic]

ProducerIdle ==
    [space |-> 0, discard |-> 0, ptr |-> NULL, i |-> 0, len |-> 0, amount |-> 0,
     h |-> 0, previousFillCount |-> 0, inBytes |-> FALSE, result |-> "none"]

ConsumerIdle ==
    [avail |-> 0, ptr |-> NULL, i |-> 0, amount |-> 0, got |-> <<>>, toClear |-> {},
     cleared |-> FALSE]

Modes == {"atomic", "plain", "nobarrier"}

Init ==
    /\ \E a \in BOOLEAN : buffer = EmptyBuffer(a)
    /\ region = [o \in Offsets |-> 0]
    /\ ppc = "idle"
    /\ pl = ProducerIdle
    /\ cpc = "idle"
    /\ cl = ConsumerIdle
    /\ produced = 0
    /\ readLog = <<>>
    /\ tracking = TRUE
    /\ alone = FALSE
    /\ asserted = FALSE
    /\ fault = FALSE
    /\ runs = [calls |-> 0, last |-> "none",
               run |-> [m \in Modes |-> [b |-> EmptyBuffer(m = "atomic"), asserted |-> FALSE]]]

\* The process runs until the assert aborts it or a memory access faults.
Running == ~asserted /\ ~fault

\* Byte i (counted from 1) of the stream the producer writes has the value i.
\* The code never looks at the bytes it moves, so once a clear has dropped data
\* the contents are no longer followed and every byte is written as 0.
StreamByte(i) == IF tracking THEN i ELSE 0

\* The producer's locals when it starts its next step between operations: the
\* values the previous call returned are no longer looked at.
Returned(p) == [p EXCEPT !.len = 0, !.previousFillCount = 0, !.result = "none"]

ProducerVars == <<ppc, pl>>
ConsumerVars == <<cpc, cl>>

\* ------------------------------------------------------------------------
\* Producer role
\* ------------------------------------------------------------------------
\* The caller's writeAccess: one call of TPCircularBufferHead.
WriteAccess ==
    /\ Running /\ ppc = "idle"
    /\ alone' = FALSE
    /\ LET r == TPCircularBufferHead(buffer)
       IN  pl' = [Returned(pl) EXCEPT !.space = r.availableBytes,
                                      !.discard = r.discardBytes, !.ptr = r.ptr, !.i = 0]
    /\ UNCHANGED <<buffer, region, ppc, cpc, cl, produced, readLog, tracking, asserted, fault, runs>>

\* The caller stores the next byte of the stream into the span it was given.
WriteSpanByte ==
    /\ Running /\ ppc = "idle"
    /\ alone' = FALSE
    /\ pl.ptr # NULL /\ pl.i < pl.space
    /\ tracking => produced + pl.i < MaxTotal
    /\ IF InRegion(pl.ptr + pl.i)
         THEN /\ region' = [region EXCEPT ![Cell(pl.ptr + pl.i)] = StreamByte(produced + pl.i + 1)]
              /\ fault' = fault
         ELSE /\ region' = region
              /\ fault' = TRUE
    /\ pl' = [Returned(pl) EXCEPT !.i = @ + 1]
    /\ UNCHANGED <<buffer, ppc, cpc, cl, produced, readLog, tracking, asserted, runs>>

\* TPCircularBufferProduce, first half of line 205: the load of buffer->head.
\* Called by the caller with the number of bytes it wrote into its span.
ProduceLoadHead ==
    /\ Running /\ ppc = "idle"
    /\ alone' = FALSE
    /\ pl.i <= pl.space
    /\ pl' = [Returned(pl) EXCEPT !.amount = pl.i, !.h = buffer.head, !.inBytes = FALSE]
    /\ ppc' = "produce_head"
    /\ UNCHANGED <<buffer, region, cpc, cl, produced, readLog, tracking, asserted, fault, runs>>

\* Second half of line 205: the store of buffer->head.
ProduceStoreHead ==
    /\ Running /\ ppc = "produce_head"
    /\ alone' = FALSE
    /\ buffer' = ProduceHead(buffer, pl.h, pl.amount)
    /\ ppc' = "produce_fill"
    /\ UNCHANGED <<region, pl, cpc, cl, produced, readLog, tracking, asserted, fault, runs>>

\* What the producer holds when TPCircularBufferProduce returns: the rest of the
\* span it was given (nothing after writeBytes, which used its own Head call).
ProducerAfterProduce(previousFillCount) ==
    LET rest == IF pl.inBytes THEN 0 ELSE pl.space - pl.amount
    IN  [pl EXCEPT !.previousFillCount = previousFillCount,
                   !.space = rest,
                   !.ptr = IF rest = 0 \/ pl.ptr = NULL THEN NULL ELSE pl.ptr + pl.amount,
                   !.discard = 0, !.i = 0, !.len = 0, !.amount = 0, !.h = 0,
                   !.result = IF pl.inBytes THEN "true" ELSE "none"]

\* Atomic mode, line 208: atomic_fetch_add, then the assert of line 213 and return.
ProduceFetchAdd ==
    /\ Running /\ ppc = "produce_fill" /\ buffer.atomic
    /\ alone' = FALSE
    /\ buffer' = ProduceFill(buffer, pl.amount)
    /\ asserted' = ~ProduceAssertOk(buffer, buffer.fillCount, pl.amount)
    /\ produced' = IF tracking THEN produced + pl.amount ELSE produced
    /\ pl' = ProducerAfterProduce(buffer.fillCount)
    /\ ppc' = "idle"
    /\ UNCHANGED <<region, cpc, cl, readLog, tracking, fault, runs>>

\* Non-atomic mode, line 210: previousFillCount = buffer->fillCount.
ProduceLoadFill ==
    /\ Running /\ ppc = "produce_fill" /\ ~buffer.atomic
    /\ alone' = FALSE
    /\ pl' = [pl EXCEPT !.previousFillCount = buffer.fillCount]
    /\ ppc' = "produce_add"
    /\ UNCHANGED <<buffer, region, cpc, cl, produced, readLog, tracking, asserted, fault, runs>>

\* Non-atomic mode, line 211: buffer->fillCount += amount, then the assert and return.
ProduceAddFill ==
    /\ Running /\ ppc = "produce_add"
    /\ alone' = FALSE
    /\ buffer' = ProduceFill(buffer, pl.amount)
    /\ asserted' = ~ProduceAssertOk(buffer, pl.previousFillCount, pl.amount)
    /\ produced' = IF tracking THEN produced + pl.amount ELSE produced
    /\ pl' = ProducerAfterProduce(pl.previousFillCount)
    /\ ppc' = "idle"
    /\ UNCHANGED <<region, cpc, cl, readLog, tracking, fault, runs>>

\* The len a caller passes to TPCircularBufferProduceBytes: up to the capacity
\* plus the largest number of bytes to discard.
Lengths == 0 .. (2 * Capacity)

\* TPCircularBufferProduceBytes, lines 232-233: the Head call and the space check.
\* src holds the next len bytes of the stream.
ProduceBytesHead ==
    /\ Running /\ ppc = "idle"
    /\ alone' = FALSE
    /\ \E len \in Lengths :
         LET r == TPCircularBufferHead(buffer)
         IN  IF ProduceBytesNoSpace(r.availableBytes, len, r.discardBytes)
               THEN /\ pl' = [ProducerIdle EXCEPT !.result = "false", !.len = len]
                    /\ ppc' = "idle"
                    /\ fault' = fault
               ELSE /\ tracking => produced + len <= MaxTotal
                    /\ pl' = [ProducerIdle EXCEPT !.space = r.availableBytes,
                                !.discard = r.discardBytes, !.ptr = r.ptr,
                                !.i = r.discardBytes, !.len = len, !.inBytes = TRUE]
                    /\ ppc' = "copy"
                    \* memcpy takes a size_t: a negative len - discard is a huge size
                    /\ fault' = (len - r.discardBytes < 0)
    /\ UNCHANGED <<buffer, region, cpc, cl, produced, readLog, tracking, asserted, runs>>

\* Line 234: memcpy(ptr + discard, src + discard, len - discard), one byte a step.
ProduceBytesCopy ==
    /\ Running /\ ppc = "copy"
    /\ alone' = FALSE
    /\ pl.i < pl.len
    /\ IF pl.ptr # NULL /\ InRegion(pl.ptr + pl.i)
         THEN /\ region' = [region EXCEPT ![Cell(pl.ptr + pl.i)] = StreamByte(produced + pl.i + 1)]
              /\ fault' = fault
         ELSE /\ region' = region
              /\ fault' = TRUE
    /\ pl' = [pl EXCEPT !.i = @ + 1]
    /\ UNCHANGED <<buffer, ppc, cpc, cl, produced, readLog, tracking, asserted, runs>>

\* Line 235: TPCircularBufferProduce(buffer, len), starting with its load of head.
ProduceBytesProduce ==
    /\ Running /\ ppc = "copy"
    /\ alone' = FALSE
    /\ pl.i >= pl.len
    /\ pl' = [pl EXCEPT !.amount = pl.len, !.h = buffer.head]
    /\ ppc' = "produce_head"
    /\ UNCHANGED <<buffer, region, cpc, cl, produced, readLog, tracking, asserted, fault, runs>>

\* ------------------------------------------------------------------------
\* Consumer role
\* ------------------------------------------------------------------------
\* The caller's readAccess: one call of TPCircularBufferTail.
ReadAccess ==
    /\ Running /\ cpc = "idle"
    /\ LET r == TPCircularBufferTail(buffer)
       IN  cl' = [cl EXCEPT !.avail = r.availableBytes, !.ptr = r.ptr, !.i = 0,
                            !.got = <<>>, !.cleared = FALSE]
    /\ UNCHANGED <<buffer, region, ppc, pl, cpc, produced, readLog, tracking, alone, asserted, fault, runs>>

\* The caller loads the next byte of the span it was given.
ReadSpanByte ==
    /\ Running /\ cpc = "idle"
    /\ cl.ptr # NULL /\ cl.i < cl.avail
    /\ IF InRegion(cl.ptr + cl.i)
         THEN /\ cl' = [cl EXCEPT !.got = IF tracking
                                             THEN Append(@, region[Cell(cl.ptr + cl.i)])
                                             ELSE @,
                                  !.i = @ + 1]
              /\ fault' = fault
         ELSE /\ cl' = [cl EXCEPT !.i = @ + 1]
              /\ fault' = TRUE
    /\ UNCHANGED <<buffer, region, ppc, pl, cpc, produced, readLog, tracking, alone, asserted, runs>>

\* TPCircularBufferConsume, line 155: the update of buffer->tail. Called by the
\* caller with the number of bytes it read from its span.
ConsumeStoreTail ==
    /\ Running /\ cpc = "idle"
    /\ cl.i <= cl.avail
    /\ buffer' = ConsumeTail(buffer, cl.i)
    /\ cl' = [cl EXCEPT !.amount = cl.i, !.cleared = FALSE]
    /\ cpc' = "consume_fill"
    /\ UNCHANGED <<region, ppc, pl, produced, readLog, tracking, alone, asserted, fault, runs>>

\* Lines 156-160: fillCount -= amount, and return; the caller keeps the rest of
\* its span.
ConsumeSubFill ==
    /\ Running /\ cpc = "consume_fill"
    /\ buffer' = ConsumeFill(buffer, cl.amount)
    /\ readLog' = readLog \o cl.got
    /\ LET rest == cl.avail - cl.amount
       IN  cl' = [cl EXCEPT !.avail = rest,
                            !.ptr = IF rest = 0 \/ cl.ptr = NULL THEN NULL
                                    ELSE cl.ptr + cl.amount,
                            !.i = 0, !.amount = 0, !.got = <<>>]
    /\ cpc' = "idle"
    /\ UNCHANGED <<region, ppc, pl, produced, tracking, alone, asserted, fault, runs>>

\* The fields TPCircularBufferClear resets.
ClearFields == {"tail", "head", "fillCount"}

\* The struct with field f reset to zero.
ClearField(b, f) == [b EXCEPT ![f] = 0]

\* TPCircularBufferClear: readCursor = writeCursor = fillCount = 0, one store a
\* step, in an order the compiler is free to choose. The caller's span is gone.
TPCircularBufferClear ==
    /\ Running
    /\ \E f \in ClearFields :
         LET left == (IF cpc = "idle" THEN ClearFields ELSE cl.toClear) \ {f}
         IN  /\ \/ cpc = "idle"
                \/ cpc = "clear" /\ f \in cl.toClear
             /\ buffer' = ClearField(buffer, f)
             /\ LET quiet == ppc = "idle" /\ (cpc = "clear" => alone)
                IN  /\ cl' = [ConsumerIdle EXCEPT !.toClear = left,
                                                  !.cleared = quiet /\ left = {}]
                    /\ alone' = (quiet /\ left # {})
             /\ cpc' = IF left = {} THEN "idle" ELSE "clear"
    \* the data in the buffer is dropped: stop following the byte contents
    /\ tracking' = FALSE
    /\ region' = [o \in Offsets |-> 0]
    /\ readLog' = <<>>
    /\ produced' = 0
    /\ UNCHANGED <<ppc, pl, asserted, fault, runs>>

\* ------------------------------------------------------------------------
\* Specifications
\* ------------------------------------------------------------------------
Producer ==
    \/ WriteAccess
    \/ WriteSpanByte
    \/ ProduceLoadHead
    \/ ProduceStoreHead
    \/ ProduceFetchAdd
    \/ ProduceLoadFill
    \/ ProduceAddFill
    \/ ProduceBytesHead
    \/ ProduceBytesCopy
    \/ ProduceBytesProduce

Consumer ==
    \/ ReadAccess
    \/ ReadSpanByte
    \/ ConsumeStoreTail
    \/ ConsumeSubFill

\* One producer thread and one consumer thread, the consumer also clearing.
Next == Producer \/ Consumer \/ TPCircularBufferClear

Spec == Init /\ [][Next]_vars

\* The same two threads when the consumer never calls clear.
NextNoClear == Producer \/ Consumer

SpecNoClear == Init /\ [][NextNoClear]_vars

\* ------------------------------------------------------------------------
\* The same two threads started on a struct whose fillCount is any value the
\* code provides for: lines 139 and 182-184 handle fillCount <= 0, which
\* TPCircularBufferConsume (lines 155-160, no check of amount) produces when
\* it is given more than the buffer holds. The cursors are where such calls
\* leave them: head = (tail + fillCount) mod length.
\* ------------------------------------------------------------------------
DrawnFill == (-Capacity) .. Capacity

DrawnBuffer(atomic, h, f) ==
    [length |-> Capacity, tail |-> (h - f) % Capacity, head |-> h, fillCount |-> f,
     atomic |-> atomic]

\* The state of the two threads, both between operations, on a drawn struct.
DrawnState(fills, followed) ==
    /\ \E a \in BOOLEAN, h \in Offsets, f \in fills : buffer = DrawnBuffer(a, h, f)
    /\ region = [o \in Offsets |-> 0]
    /\ ppc = "idle"
    /\ pl = ProducerIdle
    /\ cpc = "idle"
    /\ cl = ConsumerIdle
    /\ produced = 0
    /\ readLog = <<>>
    /\ tracking = followed
    /\ alone = FALSE
    /\ asserted = FALSE
    /\ fault = FALSE
    /\ runs = [calls |-> 0, last |-> "none",
               run |-> [m \in Modes |-> [b |-> EmptyBuffer(m = "atomic"), asserted |-> FALSE]]]

\* Byte contents are not followed: any number of bytes may pass.
InitDrawn == DrawnState(DrawnFill, FALSE)

SpecDrawn == InitDrawn /\ [][Next]_vars

\* A struct drawn with a negative fillCount, the contents of the bytes written
\* from now on followed, the consumer never calling clear.
InitFollowed == DrawnState({f \in DrawnFill : f < 0}, TRUE)

SpecFollowed == InitFollowed /\ [][NextNoClear]_vars

\* ------------------------------------------------------------------------
\* A polling producer and a polling consumer: the producer calls writeBytes
\* and repeats a call that failed with the same length; the consumer calls
\* readAccess when it holds no span, reads the span it gets and consumes all
\* of it. Each thread keeps being scheduled.
\* ------------------------------------------------------------------------
RetryBytes ==
    /\ ProduceBytesHead
    /\ pl'.len \in 1 .. Capacity
    /\ pl.result = "false" => pl'.len = pl.len

PollProducer ==
    \/ RetryBytes
    \/ ProduceBytesCopy
    \/ ProduceBytesProduce
    \/ ProduceStoreHead
    \/ ProduceFetchAdd
    \/ ProduceLoadFill
    \/ ProduceAddFill

PollRead == cl.ptr = NULL /\ ReadAccess

ConsumeAll == cl.ptr # NULL /\ cl.i = cl.avail /\ ConsumeStoreTail

PollConsumer ==
    \/ PollRead
    \/ ReadSpanByte
    \/ ConsumeAll
    \/ ConsumeSubFill

NextPoll == PollProducer \/ PollConsumer

SpecPoll ==
    Init /\ [][NextPoll]_vars /\ WF_vars(PollProducer) /\ WF_vars(PollConsumer)

\* ------------------------------------------------------------------------
\* One call sequence run single-threaded under each update discipline:
\* atomic mode on, atomic mode off, and the deprecated NoBarrier variants.
\* ------------------------------------------------------------------------
\* Amounts a caller may pass, inside and outside its contract.
Amounts == (-1) .. (Capacity + 1)

RunsGoing == runs.calls < MaxCalls /\ \A m \in Modes : ~runs.run[m].asserted

\* The same consume(amount) in every run.
RunsConsume ==
    /\ RunsGoing
    /\ \E amount \in Amounts :
         runs' = [calls |-> runs.calls + 1, last |-> "consume",
                  run |-> [m \in Modes |->
                     [b |-> IF m = "nobarrier"
                              THEN TPCircularBufferConsumeNoBarrier(runs.run[m].b, amount)
                              ELSE TPCircularBufferConsume(runs.run[m].b, amount),
                      asserted |-> FALSE]]]
    /\ UNCHANGED <<buffer, region, ppc, pl, cpc, cl, produced, readLog, tracking, alone, asserted,
                   fault>>

\* The same produce(amount) in every run.
RunsProduce ==
    /\ RunsGoing
    /\ \E amount \in Amounts :
         runs' = [calls |-> runs.calls + 1, last |-> "produce",
                  run |-> [m \in Modes |->
                     LET r == IF m = "nobarrier"
                                THEN TPCircularBufferProduceNoBarrier(runs.run[m].b, amount)
                                ELSE TPCircularBufferProduce(runs.run[m].b, amount)
                     IN  [b |-> r.b, asserted |-> r.asserted]]]
    /\ UNCHANGED <<buffer, region, ppc, pl, cpc, cl, produced, readLog, tracking, alone, asserted,
                   fault>>

NextRuns == RunsConsume \/ RunsProduce

SpecRuns == Init /\ [][NextRuns]_vars

\* ------------------------------------------------------------------------
\* Properties
\* ------------------------------------------------------------------------
\* No operation of either role is in flight.
Quiescent == ppc = "idle" /\ cpc = "idle"

\* The fill bound and the cursor relation of the struct.
FillBound(b) == 0 <= b.fillCount /\ b.fillCount <= b.length
CursorRelation(b) == b.head = (b.tail + b.fillCount) % b.length

\* C1: in every quiescent state reachable by the producer's writeAccess/produce/
\* writeBytes and the consumer's readAccess/consume/clear, with amounts inside the
\* bounds last reported, 0 <= fillCount <= capacity and
\* writeCursor = (readCursor + fillCount) mod capacity.
C1_QuiescentInvariant ==
    Quiescent => FillBound(buffer) /\ CursorRelation(buffer)

\* Number of bytes the consumer has released with consume.
Released == Len(readLog)

\* The cell stream byte j lies in when no clear has happened: the cursors start
\* at 0 and advance by the amounts published and released.
StreamCell(j) == Cell(j - 1)

\* The cells holding published bytes the consumer has not released yet.
UnreadCells == {StreamCell(j) : j \in (Released + 1) .. produced}

\* The cells of the span the producer was last given (writeAccess, or the Head
\* call inside writeBytes).
WriteSpanCells ==
    IF pl.ptr = NULL THEN {} ELSE {Cell(pl.ptr + k) : k \in 0 .. (pl.space - 1)}

\* The span the consumer was last given holds, in order, the stream bytes that
\* follow the released ones.
ReadSpanPublished ==
    cl.ptr # NULL =>
        \A k \in 0 .. (cl.avail - 1) :
            /\ InRegion(cl.ptr + k)
            /\ Released + k + 1 <= produced
            /\ region[Cell(cl.ptr + k)] = Released + k + 1

\* C2: in atomic mode and without clear, every byte of a span reported by
\* readAccess was written by the producer before the fillCount increase the
\* consumer observed and is not overwritten while the consumer holds it, and no
\* byte of a span reported by writeAccess holds data the consumer has not
\* released: the bytes the consumer loads are the published ones.
C2_NoOverwriteNoUnpublishedRead ==
    buffer.atomic =>
        /\ ReadSpanPublished
        /\ WriteSpanCells \cap UnreadCells = {}
        /\ cl.got = [k \in 1 .. Len(cl.got) |-> Released + k]

\* C2 witness: in atomic mode both roles hold a non-empty span at once, the
\* producer has stored into its span and the consumer has loaded from its own.
C2_Witness ==
    /\ buffer.atomic
    /\ pl.ptr # NULL /\ pl.i > 0 /\ ppc = "idle"
    /\ cl.ptr # NULL /\ Len(cl.got) > 0 /\ cl.i < cl.avail
    /\ Released > 0

\* C3: the bytes the consumer reads at the read pointer before each consume
\* are, concatenated, a prefix of the bytes written: none lost, duplicated or
\* reordered.
C3_FifoPrefix ==
    /\ Released <= produced
    /\ readLog = [k \in 1 .. Released |-> k]

\* C3 witness: after a successful writeBytes, the consumer has released as many
\* bytes as the buffer holds, the last of them by a partial consume that left
\* it the rest of its span, which now starts in the mirror.
C3_Witness ==
    /\ pl.result = "true"
    /\ Released >= Capacity
    /\ cpc = "idle" /\ cl.ptr >= Capacity /\ cl.avail > 0

\* A step in which a writeBytes call returns failure.
BytesFails == ppc = "idle" /\ pl'.result = "false" /\ pl' # pl

\* A step in which a writeBytes call passes its space check.
BytesProceeds == ppc = "idle" /\ ppc' = "copy"

\* The step in which a writeBytes call returns success.
BytesSucceeds == pl.inBytes /\ ppc # "idle" /\ ppc' = "idle"

\* C4: a writeBytes(source, length) that would exceed the available space
\* returns failure and leaves fillCount, readCursor, writeCursor and the stored
\* bytes unchanged; one that returns success has copied the data to the write
\* position and published length bytes.
C4_AllOrNothing ==
    [][ /\ BytesFails =>
            /\ buffer' = buffer /\ region' = region /\ produced' = produced
            /\ pl'.len > Capacity - buffer.fillCount
        /\ BytesProceeds =>
            pl'.len <= Capacity - buffer.fillCount
        /\ BytesSucceeds =>
            /\ pl'.result = "true"
            /\ buffer'.fillCount = buffer.fillCount + pl.len
            /\ buffer'.head = (pl.h + pl.len) % Capacity
            /\ buffer'.tail = buffer.tail
            /\ produced' = produced + pl.len
            /\ \A k \in 0 .. (pl.len - 1) :
                 region'[Cell(pl.h + k)] = produced + k + 1
      ]_vars

\* C4 witness: a writeBytes has failed on a buffer that had room for part of
\* the data, and nothing was written.
C4_Witness ==
    /\ pl.result = "false" /\ ppc = "idle"
    /\ 0 < buffer.fillCount /\ buffer.fillCount < Capacity
    /\ pl.len > Capacity - buffer.fillCount
    /\ produced = Released + buffer.fillCount

\* C5: from an empty buffer and with nothing consumed, every writeBytes that
\* keeps the total written within the capacity succeeds, a writeBytes of one or
\* more bytes once the total is the capacity fails, and writeAccess then
\* reports zero available bytes and no pointer.
C5_CapacityBoundary ==
    [][ Released = 0 =>
          /\ (BytesFails \/ BytesProceeds) =>
                /\ produced + pl'.len <= Capacity => BytesProceeds
                /\ (produced = Capacity /\ pl'.len >= 1) => BytesFails
          /\ (produced' = Capacity /\ Released' = 0) =>
                TPCircularBufferHead(buffer') =
                    [availableBytes |-> 0, discardBytes |-> 0, ptr |-> NULL]
      ]_vars

\* C5 witness: the buffer was filled to its capacity with nothing consumed and
\* a further writeBytes of at least one byte has failed.
C5_Witness ==
    /\ produced = Capacity /\ Released = 0 /\ buffer.fillCount = Capacity
    /\ pl.result = "false" /\ pl.len >= 1

\* A span (pointer plus availableBytes) lies entirely inside the mirrored region.
SpanInRegion(ptr, availableBytes) ==
    ptr # NULL => 0 <= ptr /\ 0 <= availableBytes /\ ptr + availableBytes <= 2 * Capacity

\* C6: under every interleaving of the steps of clear with the producer's
\* writeAccess/produce/writeBytes (and the consumer's other calls), readCursor
\* and writeCursor stay within [0, capacity), every span reported by readAccess
\* or writeAccess lies entirely inside the mirrored region, and no access
\* leaves it.
C6_ClearKeepsRegionIntact ==
    /\ buffer.tail \in Offsets
    /\ buffer.head \in Offsets
    /\ SpanInRegion(cl.ptr, cl.avail)
    /\ SpanInRegion(pl.ptr, pl.space)
    /\ SpanInRegion(TPCircularBufferTail(buffer).ptr, TPCircularBufferTail(buffer).availableBytes)
    /\ SpanInRegion(TPCircularBufferHead(buffer).ptr, TPCircularBufferHead(buffer).availableBytes)
    /\ ~fault

\* C6 witness: a clear is in flight while a produce is in flight, data is in
\* the buffer and the write cursor has already been reset under the producer.
C6_Witness ==
    /\ cpc = "clear" /\ ppc = "produce_fill"
    /\ "head" \notin cl.toClear /\ pl.amount > 0
    /\ buffer.head # 0 /\ buffer.fillCount > 0

\* The step in which a clear returns.
ClearReturns == cpc = "clear" /\ cpc' = "idle"

\* C7: with no producer step during it, a clear called in any reachable state
\* leaves readCursor, writeCursor and fillCount at 0 and the region in place,
\* and a readAccess right after it reports zero available bytes and no pointer.
C7_ClearResets ==
    [][ (ClearReturns /\ alone /\ ppc = "idle") =>
            /\ buffer'.tail = 0 /\ buffer'.head = 0 /\ buffer'.fillCount = 0
            /\ buffer'.length = buffer.length /\ buffer'.atomic = buffer.atomic
            /\ TPCircularBufferTail(buffer') = [availableBytes |-> 0, ptr |-> NULL]
      ]_vars

\* C7 witness: a clear has returned with no producer step during it, while the
\* producer still holds a span it got when the buffer held data.
C7_Witness ==
    /\ cl.cleared /\ cpc = "idle"
    /\ ppc = "idle" /\ pl.ptr > 0 /\ pl.space < Capacity
    /\ buffer.fillCount = 0

\* C8: whenever the unread data straddles the logical end of the buffer,
\* readAccess reports it as one span of fillCount bytes starting at readCursor,
\* reading the span through the mirror yields the written bytes in order, and
\* in every reachable state readCursor + availableBytes <= 2 * capacity.
C8_WraparoundTransparent ==
    LET r == TPCircularBufferTail(buffer)
    IN  /\ (cpc = "idle" /\ buffer.tail + buffer.fillCount > Capacity) =>
                /\ r.ptr = buffer.tail
                /\ r.availableBytes = buffer.fillCount
                /\ \A k \in 0 .. (r.availableBytes - 1) :
                     region[Cell(r.ptr + k)] = Released + k + 1
        /\ buffer.tail + r.availableBytes <= 2 * Capacity

\* C8 witness: the unread data straddles the end of the buffer and the consumer
\* has read the whole of it through its one span.
C8_Witness ==
    /\ cpc = "idle" /\ buffer.tail + buffer.fillCount > Capacity
    /\ cl.ptr = buffer.tail /\ cl.avail = buffer.fillCount
    /\ Len(cl.got) = cl.avail /\ cl.ptr + cl.avail > Capacity

\* A step of the consumer role, of the producer role, of clear.
ConsumerStep == ConsumerVars' # ConsumerVars
ProducerStep == ProducerVars' # ProducerVars
ClearStep == cpc = "clear" \/ cpc' = "clear"

Fields(r) == <<r.b.fillCount, r.b.tail, r.b.head, r.asserted>>

\* C10: after every call of a single-threaded produce/consume sequence, the
\* run with atomic mode on, the run with atomic mode off and the run with the
\* deprecated NoBarrier variants have the same fillCount, readCursor and
\* writeCursor, and the capacity assertion has fired in all or in none.
C10_DisciplinesAgree ==
    /\ Fields(runs.run["atomic"]) = Fields(runs.run["plain"])
    /\ Fields(runs.run["atomic"]) = Fields(runs.run["nobarrier"])

\* C10 witness: after several calls the buffer holds data, both cursors have
\* moved, and the last call was a produce that filled it exactly.
C10_Witness ==
    /\ runs.calls = MaxCalls /\ runs.last = "produce"
    /\ runs.run["nobarrier"].b.fillCount = Capacity
    /\ runs.run["nobarrier"].b.tail # 0
    /\ ~runs.run["nobarrier"].asserted

\* The step in which an atomic-mode produce does its fetch-and-add and returns.
FetchAddStep == buffer.atomic /\ ppc = "produce_fill" /\ ppc' = "idle"

\* C11: in atomic mode, under any interleaving with concurrent consume calls,
\* the value p returned by produce(amount) is the fillCount of the state the
\* update is applied to and the update leaves fillCount = p + amount, so that
\* fillCount is always the total produced minus the total consumed.
C11_ProduceReturnsPrevious ==
    [][ /\ FetchAddStep =>
              /\ pl'.previousFillCount = buffer.fillCount
              /\ buffer'.fillCount = pl'.previousFillCount + pl.amount
        /\ buffer.atomic => buffer'.fillCount = produced' - Released'
      ]_vars

\* C11 witness: in atomic mode a produce has returned a non-zero previous fill
\* count while a consume of bytes published earlier is in flight.
C11_Witness ==
    /\ buffer.atomic /\ ppc = "idle" /\ pl.previousFillCount > 0
    /\ cpc = "consume_fill" /\ cl.amount > 0 /\ Released > 0

\* A step that is one call of writeAccess by the caller.
WriteAccessStep ==
    /\ ppc = "idle" /\ ppc' = "idle" /\ pl'.i = 0 /\ pl'.result = "none"
    /\ UNCHANGED <<buffer, region, cpc, cl, fault>>

\* C12: for every value of fillCount, writeAccess reports availableBytes =
\* capacity and discardBytes = -fillCount if fillCount <= 0, and availableBytes
\* = capacity - fillCount and discardBytes = 0 if fillCount > 0; it returns no
\* pointer exactly when availableBytes = 0, which is when fillCount = capacity,
\* and otherwise the address at writeCursor.
C12_WriteAccessResult ==
    [][ WriteAccessStep =>
          /\ buffer.fillCount <= 0 =>
                pl'.space = Capacity /\ pl'.discard = -buffer.fillCount
          /\ buffer.fillCount > 0 =>
                pl'.space = Capacity - buffer.fillCount /\ pl'.discard = 0
          /\ (pl'.ptr = NULL) <=> (pl'.space = 0)
          /\ (pl'.space = 0) <=> (buffer.fillCount = Capacity)
          /\ pl'.ptr # NULL => pl'.ptr = buffer.head
      ]_vars

\* C12 witness: writeAccess has reported the whole capacity, bytes to discard
\* and the address at a write cursor that is not 0.
C12_Witness ==
    /\ ppc = "idle" /\ ~pl.inBytes /\ pl.result = "none"
    /\ pl.discard > 0 /\ pl.discard = -buffer.fillCount
    /\ pl.space = Capacity /\ pl.ptr = buffer.head /\ buffer.head > 0

\* A step that is one call of readAccess by the caller.
ReadAccessStep ==
    /\ cpc = "idle" /\ cpc' = "idle" /\ cl'.i = 0
    /\ UNCHANGED <<buffer, region, ppc, pl, fault>>

\* C13: for every value of fillCount, readAccess reports zero available bytes
\* and no pointer if fillCount <= 0, and otherwise exactly fillCount available
\* bytes and the address at readCursor; availableBytes is never negative.
C13_ReadAccessResult ==
    [][ ReadAccessStep =>
          /\ buffer.fillCount <= 0 => cl'.avail = 0 /\ cl'.ptr = NULL
          /\ buffer.fillCount > 0 =>
                cl'.avail = buffer.fillCount /\ cl'.ptr = buffer.tail
          /\ cl'.avail >= 0
      ]_vars

\* C13 witness: the fill count is negative while a writeBytes that skips bytes
\* is copying, and the consumer, between operations, holds no bytes and no
\* pointer.
C13_Witness ==
    /\ buffer.fillCount < 0 /\ ppc = "copy" /\ pl.discard = -buffer.fillCount
    /\ cpc = "idle" /\ cl.avail = 0 /\ cl.ptr = NULL /\ cl.toClear = {}

\* A step of the memcpy of writeBytes.
CopyStep == ppc = "copy" /\ ppc' = "copy" /\ pl' # pl

\* The step in which the memcpy of writeBytes returns.
CopyReturns == ppc = "copy" /\ ppc' = "produce_head"

\* The call with locals p has bytes to copy and copies them inside the region.
CopyInRange(p) == p.discard <= p.len /\ p.ptr + p.len <= 2 * Capacity

\* What writeBytes does, step by step, when writeAccess reports bytes to
\* discard: for every call (all = TRUE) or for the calls in CopyInRange.
DiscardWrite(all) ==
        /\ (BytesProceeds /\ pl'.discard > 0 /\ (all \/ CopyInRange(pl'))) =>
              /\ pl'.discard = -buffer.fillCount /\ pl'.ptr = buffer.head
              /\ pl'.discard <= pl'.len /\ pl'.i = pl'.discard
              /\ ~fault'
        /\ (CopyStep /\ pl.discard > 0 /\ (all \/ CopyInRange(pl))) =>
              /\ pl.discard <= pl.i /\ pl.i < pl.len /\ pl'.i = pl.i + 1
              /\ ~fault'
              /\ region'[Cell(buffer.head + pl.i)] = produced + pl.i + 1
        /\ (CopyReturns /\ pl.discard > 0 /\ (all \/ CopyInRange(pl))) =>
              pl.i = pl.len
        /\ (BytesSucceeds /\ pl.discard > 0 /\ (all \/ CopyInRange(pl))) =>
              /\ buffer.fillCount = -pl.discard
              /\ buffer'.fillCount = pl.len - pl.discard
              /\ buffer'.head = (pl.ptr + pl.len) % Capacity
              /\ produced' = produced + pl.len
              /\ pl'.result = "true" /\ ~asserted'

\* C14: when writeAccess reports discardBytes = d > 0 and availableBytes >=
\* length - d, writeBytes copies exactly the length - d bytes source[d..length)
\* to the offsets writeCursor + d .. writeCursor + length, then publishes the
\* full length: fillCount goes from -d to length - d and writeCursor advances
\* by length modulo the capacity.
C14_DiscardWrite == [][DiscardWrite(TRUE)]_vars

\* The same for the calls with d <= length and writeCursor + length within the
\* mirrored region.
DiscardWriteInRange == [][DiscardWrite(FALSE)]_vars

\* A writeBytes with bytes to discard has returned success: its data begins d
\* bytes past the old write cursor and the fill count is length - d.
DiscardWriteDone ==
    /\ pl.result = "true" /\ ppc = "idle" /\ produced > buffer.fillCount
    /\ buffer.fillCount > 0 /\ Released = 0 /\ cpc = "idle"

\* The amount of the produce call in flight, 0 if there is none.
InFlightAmount ==
    IF ppc \in {"produce_head", "produce_fill", "produce_add"} THEN pl.amount ELSE 0

C16_FillBoundEveryStep ==
    /\ FillBound(buffer)
    /\ buffer.tail \in Offsets
    /\ buffer.head \in Offsets

\* C16 witness: a produce and a consume are both between their cursor update
\* and their fillCount update, and the cursor relation does not hold.
C16_Witness ==
    /\ ppc = "produce_fill" /\ pl.amount > 0
    /\ cpc = "consume_fill" /\ cl.amount > 0
    /\ ~CursorRelation(buffer)

\* C17: when the producer only calls produce(amount) with 0 <= amount <= the
\* availableBytes of its most recent writeAccess, or calls writeBytes, then
\* under any interleaving with the consumer's readAccess/consume/clear and for
\* any fillCount, negative values included, the assert of produce never fires:
\* the fill count before the update plus amount never exceeds the capacity.
C17_AssertNeverFires == ~asserted

\* The fill count never exceeds the capacity.
NoOverrun == buffer.fillCount <= Capacity

\* The number of bytes the memcpy of the writeBytes call in flight is given.
CopySize == pl.len - pl.discard

\* C18: in every reachable state and for every length >= 0, also when
\* fillCount is negative and length < discardBytes, a writeBytes call either
\* fails without copying or copies a number of bytes length - discardBytes
\* with 0 <= length - discardBytes <= capacity.
C18_NoNegativeCopy ==
    ppc = "copy" => 0 <= CopySize /\ CopySize <= Capacity

\* The upper half of C18 alone.
CopySizeWithinCapacity == ppc = "copy" => CopySize <= Capacity

\* The destination of the memcpy of the writeBytes call in flight.
CopyOffsets == {pl.ptr + k : k \in pl.discard .. (pl.len - 1)}

\* The two halves of C19.
CopyInsideRegion == ppc = "copy" => \A o \in CopyOffsets : InRegion(o)
CopyHasPointer == ppc = "copy" => pl.ptr # NULL

\* C19: every byte written by a successful writeBytes lies inside the mirrored
\* region: the destination offsets writeCursor + discardBytes .. writeCursor +
\* length - 1 are all below 2 * capacity, also when discardBytes > 0 and length
\* is as large as capacity + discardBytes; and when a writeBytes that passes
\* the space check proceeds to copy, the pointer writeAccess returned is not
\* the null pointer.
C19_CopyInsideRegion == CopyInsideRegion /\ CopyHasPointer

\* readAccess and writeAccess would both report zero available bytes.
MutualStall ==
    /\ TPCircularBufferTail(buffer).availableBytes = 0
    /\ TPCircularBufferHead(buffer).availableBytes = 0

\* A writeBytes of at most the capacity has failed and is being retried (and
\* the bytes it carries are within the number the model follows).
Retrying ==
    /\ ppc = "idle" /\ pl.result = "false"
    /\ pl.len <= Capacity /\ produced + pl.len <= MaxTotal

\* C20: in no reachable state do readAccess and writeAccess both report zero
\* available bytes; and with both threads scheduled fairly and the consumer
\* consuming all that readAccess reports, every byte published by produce is
\* eventually reported by readAccess and consumed, and a producer retrying a
\* writeBytes of at most the capacity eventually succeeds.
C20_NoStallAndDelivery ==
    /\ []~MutualStall
    /\ \A k \in 1 .. MaxTotal : (produced >= k) ~> (Released >= k)
    /\ Retrying ~> (pl.result = "true")

\* C20 witness: more bytes than the buffer holds have been published, the last
\* of them by a writeBytes that returned success, and all have been consumed.
C20_Witness ==
    /\ produced = MaxTotal /\ Released = MaxTotal /\ MaxTotal > Capacity
    /\ pl.result = "true" /\ buffer.fillCount = 0 /\ cpc = "idle"

====
